---------------------------- MODULE Spec2Model ----------------------------
(***************************************************************************)
(* Model of the interview orchestration service                            *)
(* (backend/app/services/interview_service.py) together with the parts of  *)
(* backend/app/schemas.py, backend/app/services/llm_client.py and          *)
(* backend/app/main.py that decide its observable behaviour.               *)
(*                                                                         *)
(* Each service operation is an operator from the state and the           *)
(* arguments to a record holding what the operation returns or raises      *)
(* (error), what it sent to the Gateway (calls, sent) and the state it     *)
(* leaves; one action per operation applies it from entry to return or     *)
(* raise.  The HTTP handlers are `async def` functions that call the       *)
(* synchronous service without awaiting, so an operation is never          *)
(* interleaved with another one inside the process.                        *)
(*                                                                         *)
(* error is "none" or the exception raised: "UnknownSession" and           *)
(* "UnknownArtifact" are the two KeyErrors, "TransportError" is whatever   *)
(* chat_completion raised.                                                 *)
(*                                                                         *)
(* Not modelled: the created_at / updated_at stamps of sessions and chat   *)
(* messages (no operation reads them) and logging.                         *)
(***************************************************************************)
EXTENDS Integers, Sequences, FiniteSets, TLC

VARIABLES
    sessions,   \* InterviewService._sessions: session id -> InterviewSession
    uuids,      \* number of uuid4() values drawn so far; the n-th draw is n
    storage,    \* files under _storage_dir: storage path -> bytes held
    requests    \* HTTP requests accepted and not yet answered, each waiting for
                \* the event loop or suspended inside its handler at the Gateway

vars == <<sessions, uuids, storage, requests>>

(***************************************************************************)
(* Bounds of the model.                                                    *)
(***************************************************************************)
\* uuid4() draws (session ids and artifact ids share the generator)
MaxUuid == 2
\* entries the store holds: message-history entries and artifacts of all sessions
MaxEntries == 7

(***************************************************************************)
(* JSON values as json.loads returns them.  Every value is a record of the *)
(* same shape so that values of different JSON types can be compared.      *)
(*   t = "absent": the key is missing from its object                      *)
(***************************************************************************)
Absent == [t |-> "absent", n |-> 0, s |-> ""]
JNum(k) == [t |-> "num", n |-> k, s |-> ""]
JStr(x) == [t |-> "str", n |-> 0, s |-> x]
\* a JSON array of strings used where a string is expected
JArr == [t |-> "arr", n |-> 0, s |-> ""]

\* a JSON array field: t in {"absent", "null", "list", "num"}
NoList == [t |-> "absent", items |-> << >>]
JList(xs) == [t |-> "list", items |-> xs]

\* the rubric_scores field: t in {"absent", "null", "obj", "num"}
NoMap == [t |-> "absent", m |-> << >>]
JMap(f) == [t |-> "obj", m |-> f]

\* the evaluation field: t in {"absent", "null", "obj", "str"}
NoEval == [t |-> "absent", summary |-> Absent, strengths |-> NoList,
           gaps |-> NoList, rubric_scores |-> NoMap, recommendation |-> Absent]
JEval(su, st, ga, rs, re) ==
    [t |-> "obj", summary |-> su, strengths |-> st, gaps |-> ga,
     rubric_scores |-> rs, recommendation |-> re]

\* a JSON object the Gateway answers with, by the keys the service reads:
\* those of a turn and those of a wrap-up
Content(im, ev, nba) ==
    [interviewer_message |-> im, evaluation |-> ev, next_best_action |-> nba,
     overall_summary |-> Absent, scorecard |-> NoMap, next_steps |-> NoList]
SummaryContent(overall_summary, scorecard, next_steps) ==
    [interviewer_message |-> Absent, evaluation |-> NoEval, next_best_action |-> Absent,
     overall_summary |-> overall_summary, scorecard |-> scorecard, next_steps |-> next_steps]
\* the object {}
NoContent == Content(Absent, NoEval, Absent)

(***************************************************************************)
(* Python helpers.                                                         *)
(***************************************************************************)
\* dict.get(key, default) on a score mapping
Get(d, k, default) == IF k \in DOMAIN d THEN d[k] ELSE default

\* d[key] = value
Put(d, k, v) == [x \in DOMAIN d \cup {k} |-> IF x = k THEN v ELSE d[x]]

\* float(str): the strings that parse as a number, and their value
NumericStrings == {"4"}
ParseFloat(x) == CASE x = "4" -> 4 [] OTHER -> 0

RECURSIVE Gcd(_, _)
Gcd(a, b) == IF b = 0 THEN a ELSE Gcd(b, a % b)

\* total / count as an exact fraction in lowest terms (count > 0)
Divide(total, count) ==
    LET g == Gcd(total, count)
    IN  IF g = 0 THEN [num |-> 0, den |-> 1]
        ELSE [num |-> total \div g, den |-> count \div g]

\* the float k as a fraction
Float(k) == [num |-> k, den |-> 1]


(***************************************************************************)
(* The static rubric catalog.                                              *)
(***************************************************************************)
SKILL_RUBRIC ==
    {"excel_functions", "data_analysis", "automation", "business_acumen", "storytelling"}

(***************************************************************************)
(* schemas.py: the pydantic models.  A constructor either yields the model *)
(* or raises ValidationError; *Valid says which.                           *)
(***************************************************************************)
\* ChatMessage(role, content, created_at); None is modelled by present = FALSE
NoMessage == [present |-> FALSE, role |-> "", content |-> ""]
ChatMessage(role, content) == [present |-> TRUE, role |-> role, content |-> content]
\* content: str
ChatMessageValid(v) == v.t = "str"

\* a field declared `str`
StrValid(v) == v.t = "str"
\* a field declared Optional[str]
OptionalStrValid(v) == v.t \in {"absent", "null", "str"}
OptionalStr(v) == IF v.t = "str" THEN [present |-> TRUE, s |-> v.s] ELSE [present |-> FALSE, s |-> ""]
\* a field declared List[str]
ListStrValid(xs) == \A i \in 1..Len(xs) : xs[i].t = "str"
ListStr(xs) == [i \in 1..Len(xs) |-> xs[i].s]

\* one value of a field declared dict[str, float]: numbers are kept, strings
\* that parse as a number are converted, anything else is rejected
FloatValid(v) == v.t = "num" \/ (v.t = "str" /\ v.s \in NumericStrings)
ToFloat(v) == IF v.t = "num" THEN JNum(v.n) ELSE JNum(ParseFloat(v.s))
DictFloatValid(m) == \A k \in DOMAIN m : FloatValid(m[k])
DictFloat(m) == [k \in DOMAIN m |-> ToFloat(m[k])]

NoSnapshot ==
    [present |-> FALSE, summary |-> "", strengths |-> << >>, gaps |-> << >>,
     rubric_scores |-> << >>, recommendation |-> ""]
EvaluationSnapshot(summary, strengths, gaps, rubric_scores, recommendation) ==
    [present |-> TRUE, summary |-> summary.s, strengths |-> ListStr(strengths),
     gaps |-> ListStr(gaps), rubric_scores |-> DictFloat(rubric_scores),
     recommendation |-> recommendation.s]
EvaluationSnapshotValid(summary, strengths, gaps, rubric_scores, recommendation) ==
    /\ StrValid(summary)
    /\ ListStrValid(strengths)
    /\ ListStrValid(gaps)
    /\ DictFloatValid(rubric_scores)
    /\ StrValid(recommendation)

ChatTurnAnonymous(candidate_message, interviewer_message, evaluation, next_best_action) ==
    [candidate_message |-> [present |-> FALSE, role |-> "", content |-> ""],
     interviewer_message |-> interviewer_message,
     evaluation |-> evaluation,
     next_best_action |-> OptionalStr(next_best_action)]
ChatTurn(candidate_message, interviewer_message, evaluation, next_best_action) ==
    [candidate_message |-> candidate_message,
     interviewer_message |-> interviewer_message,
     evaluation |-> evaluation,
     next_best_action |-> OptionalStr(next_best_action)]
ChatTurnValid(next_best_action) == OptionalStrValid(next_best_action)
NoTurn == ChatTurn(NoMessage, NoMessage, NoSnapshot, Absent)

(***************************************************************************)
(* InterviewSession.                                                       *)
(***************************************************************************)
\* InterviewSession(...) with the dataclass defaults
InterviewSession ==
    [messages |-> << >>, transcript |-> << >>, score_totals |-> << >>,
     score_counts |-> << >>, artifacts |-> << >>]

\* record_scores: a value that is not an int or float is skipped
IsNumber(v) == v.t = "num"
RecordScoresCatalogOnly(session, scores) ==
    LET hit == {k \in DOMAIN scores \cap SKILL_RUBRIC : IsNumber(scores[k])}
    IN  [session EXCEPT
            !.score_totals = [k \in DOMAIN session.score_totals \cup hit |->
                IF k \in hit THEN Get(session.score_totals, k, 0) + scores[k].n
                ELSE session.score_totals[k]],
            !.score_counts = [k \in DOMAIN session.score_counts \cup hit |->
                IF k \in hit THEN Get(session.score_counts, k, 0) + 1
                ELSE session.score_counts[k]]]
record_scores(session, scores) ==
    LET hit == {k \in DOMAIN scores : IsNumber(scores[k])}
    IN  [session EXCEPT
            !.score_totals = [k \in DOMAIN session.score_totals \cup hit |->
                IF k \in hit THEN Get(session.score_totals, k, 0) + scores[k].n
                ELSE session.score_totals[k]],
            !.score_counts = [k \in DOMAIN session.score_counts \cup hit |->
                IF k \in hit THEN Get(session.score_counts, k, 0) + 1
                ELSE session.score_counts[k]]]

\* running_scores: the averages of the skills whose count is truthy
RunningScoresUnfiltered(session) ==
    [k \in DOMAIN session.score_totals |->
        IF Get(session.score_counts, k, 0) = 0 THEN [num |-> session.score_totals[k], den |-> 0]
        ELSE Divide(session.score_totals[k], session.score_counts[k])]
running_scores(session) ==
    [k \in {x \in DOMAIN session.score_totals : Get(session.score_counts, x, 0) # 0} |->
        Divide(session.score_totals[k], session.score_counts[k])]

(***************************************************************************)
(* llm_client.py.  The payload chat_completion returns is modelled by the  *)
(* part extract_content reads: body says what payload["choices"][0]        *)
(* ["message"]["content"] holds.                                           *)
(*   "no_choices": the path is missing (KeyError / IndexError)             *)
(*   "bad_json"  : a string that is not JSON                               *)
(*   "no_content": the key content is missing, read as "{}"                *)
(*   "array"     : JSON that is not an object                              *)
(*   "object"    : the JSON object obj                                     *)
(***************************************************************************)
LlmPayload(body, obj) == [body |-> body, obj |-> obj]

\* extract_content: KeyError, IndexError and JSONDecodeError become ValueError
extract_content(payload) ==
    CASE payload.body \in {"no_choices", "bad_json"} ->
            [error |-> "ValueError", isObject |-> FALSE, obj |-> NoContent]
      [] payload.body = "no_content" ->
            [error |-> "none", isObject |-> TRUE, obj |-> NoContent]
      [] payload.body = "array" ->
            [error |-> "none", isObject |-> FALSE, obj |-> NoContent]
      [] OTHER ->
            [error |-> "none", isObject |-> TRUE, obj |-> payload.obj]

(***************************************************************************)
(* InterviewService._record_ai_turn.  The result holds the session as the  *)
(* call leaves it, also when it raises part-way.                           *)
(***************************************************************************)
\* `x or default` for the values read from the evaluation object
EvaluationFalsy(ev) ==
    \/ ev.t \in {"absent", "null"}
    \/ /\ ev.t = "obj"
       /\ ev.summary.t = "absent"
       /\ ev.strengths.t = "absent"
       /\ ev.gaps.t = "absent"
       /\ ev.rubric_scores.t = "absent"
       /\ ev.recommendation.t = "absent"
\* list(payload.get(key, []) or [])
ListArg(l) == IF l.t = "list" THEN l.items ELSE << >>
\* dict(payload.get("rubric_scores", {}) or {})
DictArg(rs) == IF rs.t = "obj" THEN rs.m ELSE << >>
\* payload.get(key, "")
StrArg(v) == IF v.t = "absent" THEN JStr("") ELSE v

\* the loop that seeds every catalog skill at zero
SeedRubricSkipped(session) == session
SeedRubric(session) ==
    [session EXCEPT
        !.score_totals = [k \in DOMAIN session.score_totals \cup SKILL_RUBRIC |->
            Get(session.score_totals, k, 0)],
        !.score_counts = [k \in DOMAIN session.score_counts \cup SKILL_RUBRIC |->
            Get(session.score_counts, k, 0)]]

\* json.dumps(content) as the assistant entry of the message history
Message(role, text) == [role |-> role, text |-> text, json |-> NoContent]
AssistantMessage(content) == [role |-> "assistant", text |-> "", json |-> content]

RaiseTurn(error, session) == [error |-> error, session |-> session, turn |-> NoTurn]

\* lines 318-335: build the turn, append it, append the assistant entry, seed
AppendTurn(session, content, candidate_message, interviewer_message, evaluation) ==
    IF ~ChatTurnValid(content.next_best_action)
    THEN RaiseTurn("ValidationError", session)
    ELSE LET turn == ChatTurn(candidate_message, interviewer_message, evaluation,
                              content.next_best_action)
             appended == [session EXCEPT
                            !.transcript = Append(@, turn),
                            !.messages = Append(@, AssistantMessage(content))]
         IN  [error |-> "none", session |-> SeedRubric(appended), turn |-> turn]

record_ai_turn(session, parsed, candidate_message) ==
    LET content == parsed.obj
        ev == content.evaluation
        interviewer_message_text == StrArg(content.interviewer_message)
        interviewer_message == ChatMessage("interviewer", interviewer_message_text.s)
        summary == StrArg(ev.summary)
        recommendation == StrArg(ev.recommendation)
        strengths == ListArg(ev.strengths)
        gaps == ListArg(ev.gaps)
        rubric_scores == DictArg(ev.rubric_scores)
    IN  IF ~parsed.isObject THEN RaiseTurn("AttributeError", session)
        ELSE IF ~ChatMessageValid(interviewer_message_text)
        THEN RaiseTurn("ValidationError", session)
        ELSE IF EvaluationFalsy(ev)
        THEN AppendTurn(session, content, candidate_message, interviewer_message, NoSnapshot)
        ELSE IF ev.t = "str" THEN RaiseTurn("AttributeError", session)
        ELSE IF "num" \in {ev.strengths.t, ev.gaps.t, ev.rubric_scores.t}
        THEN RaiseTurn("TypeError", session)
        ELSE IF ~EvaluationSnapshotValid(summary, strengths, gaps, rubric_scores, recommendation)
        THEN RaiseTurn("ValidationError", session)
        ELSE LET evaluation == EvaluationSnapshot(summary, strengths, gaps, rubric_scores,
                                                  recommendation)
             IN  AppendTurn(record_scores(session, evaluation.rubric_scores), content,
                            candidate_message, interviewer_message, evaluation)

(***************************************************************************)
(* The Gateway's behaviour on one call: it raises, or it answers payload.  *)
(***************************************************************************)
GatewayRaises == [raises |-> TRUE, payload |-> LlmPayload("", NoContent)]
GatewayAnswers(payload) == [raises |-> FALSE, payload |-> payload]

\* the times an operation that reaches its Gateway call invokes chat_completion:
\* the call stands in no loop and under no handler that repeats it
GatewayCallsRetried(outcome) == IF outcome.raises THEN 2 ELSE 1
GatewayCalls(outcome) == 1

\* the exception the two lines `chat_completion(...)`, `extract_content(...)` end with
GatewayError(outcome) ==
    IF outcome.raises THEN "TransportError" ELSE extract_content(outcome.payload).error

(***************************************************************************)
(* InterviewService._get_session                                           *)
(***************************************************************************)
GetSessionErrorAsArtifact(session_id) ==
    IF session_id \in DOMAIN sessions THEN "none" ELSE "UnknownArtifact"
get_session_error(session_id) ==
    IF session_id \in DOMAIN sessions THEN "none" ELSE "UnknownSession"

(***************************************************************************)
(* InterviewService.create_session                                         *)
(***************************************************************************)
SYSTEM_PROMPT == "system_prompt"
BOOTSTRAP_PROMPT == "bootstrap_prompt"
SUMMARY_PROMPT == "summary_prompt"

\* lines 107-123: the new session with its two seed messages
SeededWithoutSystemPrompt ==
    [InterviewSession EXCEPT !.messages = <<Message("user", BOOTSTRAP_PROMPT)>>]
SeededSession ==
    [InterviewSession EXCEPT
        !.messages = <<Message("system", SYSTEM_PROMPT), Message("user", BOOTSTRAP_PROMPT)>>]

\* line 128, reached only when nothing before it raised:
\* self._sessions[session_id] = session
RegisterAlone(session_id, session, error) ==
    IF error = "none" THEN (session_id :> session) ELSE sessions
RegisterBeforeCall(session_id, session, error) == Put(sessions, session_id, session)
Register(session_id, session, error) ==
    IF error = "none" THEN Put(sessions, session_id, session) ELSE sessions

\* lines 107-131: create_session once line 106 has drawn session_id
create_session_as(session_id, outcome) ==
    LET session == SeededSession
        gwError == GatewayError(outcome)
        rec == record_ai_turn(session, extract_content(outcome.payload), NoMessage)
        error == IF gwError # "none" THEN gwError ELSE rec.error
    IN  [error |-> error,
         calls |-> GatewayCalls(outcome),
         sent |-> session.messages,
         session_id |-> IF error = "none" THEN session_id ELSE 0,
         first_turn |-> IF error = "none" THEN rec.turn ELSE NoTurn,
         sessions |-> Register(session_id, IF gwError # "none" THEN session ELSE rec.session,
                               error),
         uuids |-> session_id]

\* line 106: session_id = str(uuid4())
create_session(outcome) == create_session_as(uuids + 1, outcome)

(***************************************************************************)
(* InterviewService.chat                                                   *)
(***************************************************************************)
\* line 141: session.messages.append({"role": "user", "content": message})
OverwriteLastMessage(session, message) ==
    [session EXCEPT !.messages = [@ EXCEPT ![Len(@)] = Message("user", message)]]
AppendUserMessage(session, message) ==
    [session EXCEPT !.messages = Append(@, Message("user", message))]

\* line 153: total_turns=len(session.transcript)
TotalTurnsOfChatsOnly(session) == Len(session.transcript) - 1
TotalTurns(session) == Len(session.transcript)

\* lines 143-153: chat from its Gateway call on; asked is the session as line 141
\* left it
chat_answered(asked, message, outcome) ==
    LET gwError == GatewayError(outcome)
        rec == record_ai_turn(asked, extract_content(outcome.payload),
                              ChatMessage("candidate", message))
        error == IF gwError # "none" THEN gwError ELSE rec.error
        \* the session object is mutated in place, whether or not the call raises
        after == IF gwError # "none" THEN asked ELSE rec.session
    IN  [error |-> error,
         calls |-> GatewayCalls(outcome),
         sent |-> asked.messages,
         turn |-> IF error = "none" THEN rec.turn ELSE NoTurn,
         running_scores |-> IF error = "none" THEN running_scores(after) ELSE << >>,
         total_turns |-> IF error = "none" THEN TotalTurns(after) ELSE 0,
         session |-> after]

\* lines 135-153: chat once _get_session has returned the session object
chat_session(session, message, outcome) ==
    chat_answered(AppendUserMessage(session, message), message, outcome)

chat(session_id, message, outcome) ==
    IF get_session_error(session_id) # "none"
    THEN [error |-> get_session_error(session_id), calls |-> 0, sent |-> << >>,
          turn |-> NoTurn, running_scores |-> << >>, total_turns |-> 0,
          sessions |-> sessions]
    ELSE LET r == chat_session(sessions[session_id], message, outcome)
         IN  [error |-> r.error,
              calls |-> r.calls,
              sent |-> r.sent,
              turn |-> r.turn,
              running_scores |-> r.running_scores,
              total_turns |-> r.total_turns,
              sessions |-> [sessions EXCEPT ![session_id] = r.session]]

(***************************************************************************)
(* InterviewService.summarize                                              *)
(***************************************************************************)
\* SummaryResponse(final_summary: str, recommended_next_steps: List[str],
\*                 overall_scores: dict[str, float])
SummaryResponseValid(content) ==
    /\ StrValid(StrArg(content.overall_summary))
    /\ content.next_steps.t \in {"absent", "list"}
    /\ ListStrValid(content.next_steps.items)
    /\ content.scorecard.t \in {"absent", "obj"}
    /\ DictFloatValid(content.scorecard.m)

\* line 171: messages = session.messages + [summary prompt], a new list
SummaryMessages(session) == Append(session.messages, Message("user", SUMMARY_PROMPT))

\* the session as summarize leaves it: nothing is assigned to it
SummarizeAppendsPrompt(session) == [session EXCEPT !.messages = SummaryMessages(session)]
SummarizeSessionAfter(session) == session

summarize(session_id, outcome) ==
    IF get_session_error(session_id) # "none"
    THEN [error |-> get_session_error(session_id), calls |-> 0, sent |-> << >>,
          transcript |-> << >>, final_summary |-> "", recommended_next_steps |-> << >>,
          overall_scores |-> << >>, sessions |-> sessions]
    ELSE LET session == sessions[session_id]
             gwError == GatewayError(outcome)
             parsed == extract_content(outcome.payload)
             error == IF gwError # "none" THEN gwError
                      ELSE IF ~parsed.isObject THEN "AttributeError"
                      ELSE IF ~SummaryResponseValid(parsed.obj) THEN "ValidationError"
                      ELSE "none"
             ok == error = "none"
         IN  [error |-> error,
              calls |-> GatewayCalls(outcome),
              sent |-> SummaryMessages(session),
              transcript |-> IF ok THEN session.transcript ELSE << >>,
              final_summary |-> IF ok THEN StrArg(parsed.obj.overall_summary).s ELSE "",
              recommended_next_steps |->
                  IF ok THEN ListStr(parsed.obj.next_steps.items) ELSE << >>,
              overall_scores |-> IF ok THEN DictFloat(parsed.obj.scorecard.m) ELSE << >>,
              sessions |-> [sessions EXCEPT ![session_id] = SummarizeSessionAfter(session)]]

(***************************************************************************)
(* Strings the artifact operations inspect are sequences of tokens.        *)
(*   a URL is <<" ", "https://", "x", " ">>: blanks, a scheme prefix, text *)
(*   a file name is [dirs, parts]: the directories before the last path    *)
(*   separator and the final component split before each dot,              *)
(*   "candidate.XLSX" being <<"candidate", ".XLSX">>                       *)
(***************************************************************************)
\* str.lower() of one token
Lower(tok) ==
    CASE tok = "HTTP://" -> "http://"
      [] tok = "HTTPS://" -> "https://"
      [] tok = ".XLSX" -> ".xlsx"
      [] tok = ".CSV" -> ".csv"
      [] tok = ".TXT" -> ".txt"
      [] OTHER -> tok

RECURSIVE LStrip(_)
LStrip(xs) == IF xs # << >> /\ Head(xs) = " " THEN LStrip(Tail(xs)) ELSE xs
RECURSIVE RStrip(_)
RStrip(xs) ==
    IF xs # << >> /\ xs[Len(xs)] = " " THEN RStrip(SubSeq(xs, 1, Len(xs) - 1)) ELSE xs
\* str.strip()
Strip(xs) == RStrip(LStrip(xs))

\* Path(filename).suffix: the last dot-part of the final component, unless the
\* dot leads the name or ends it
Suffix(filename) ==
    LET parts == filename.parts
        n == Len(parts)
    IN  IF n >= 2 /\ parts[n] # "." /\ ~(n = 2 /\ parts[1] = "") THEN parts[n] ELSE ""

\* Path(filename).name
Name(filename) == [dirs |-> << >>, parts |-> filename.parts]
NoFilename == [dirs |-> << >>, parts |-> << >>]

ALLOWED_FILE_EXTENSIONS == {".xlsx", ".xlsm", ".xlsb", ".xls", ".csv", ".tsv", ".ods"}

\* InterviewService.__init__: max_upload_bytes = 10 * 1024 * 1024
MAX_UPLOAD_BYTES == 10485760

(***************************************************************************)
(* SubmissionArtifact; None is "" / << >> / -1 / NoPath.                   *)
(***************************************************************************)
NoPath == [session_id |-> 0, artifact_id |-> 0, extension |-> ""]
StoragePathFlat(session_id, artifact_id, extension) ==
    [session_id |-> 0, artifact_id |-> artifact_id, extension |-> extension]
StoragePath(session_id, artifact_id, extension) ==
    [session_id |-> session_id, artifact_id |-> artifact_id, extension |-> extension]

NoArtifact ==
    [id |-> 0, source |-> "", filename |-> NoFilename, content_type |-> "",
     size_bytes |-> -1, uploaded_at |-> 0, description |-> << >>, url |-> << >>,
     storage_path |-> NoPath]

\* the artifacts of every session
AllArtifacts ==
    UNION {{sessions[x].artifacts[i] : i \in 1..Len(sessions[x].artifacts)} :
              x \in DOMAIN sessions}

\* datetime.utcnow(): the clock has not gone back since the last stamp taken,
\* and may not have advanced since
LastStamp ==
    IF AllArtifacts = {} THEN 0
    ELSE CHOOSE t \in {a.uploaded_at : a \in AllArtifacts} :
            \A a \in AllArtifacts : a.uploaded_at <= t
UtcNow == {LastStamp, LastStamp + 1}

\* session.artifacts[artifact_id] = artifact (a dict keeps insertion order)
ReplaceArtifacts(session, artifact) == [session EXCEPT !.artifacts = <<artifact>>]
AddArtifact(session, artifact) == [session EXCEPT !.artifacts = Append(@, artifact)]

\* session.artifacts.get(artifact_id)
FindArtifact(session, artifact_id) ==
    LET hits == {i \in 1..Len(session.artifacts) : session.artifacts[i].id = artifact_id}
    IN  IF hits = {} THEN NoArtifact ELSE session.artifacts[CHOOSE i \in hits : TRUE]

(***************************************************************************)
(* InterviewService.list_artifacts                                         *)
(***************************************************************************)
\* sorted(..., key=uploaded_at, reverse=True): a stable sort, so artifacts with
\* equal stamps keep the order the dict holds them in
RECURSIVE InsertDesc(_, _)
InsertDesc(sorted, a) ==
    IF sorted = << >> THEN <<a>>
    ELSE IF Head(sorted).uploaded_at >= a.uploaded_at
         THEN <<Head(sorted)>> \o InsertDesc(Tail(sorted), a)
         ELSE <<a>> \o sorted
RECURSIVE SortedDesc(_)
SortedDesc(xs) ==
    IF xs = << >> THEN << >>
    ELSE InsertDesc(SortedDesc(SubSeq(xs, 1, Len(xs) - 1)), xs[Len(xs)])

list_artifacts(session_id) ==
    IF get_session_error(session_id) # "none"
    THEN [error |-> get_session_error(session_id), calls |-> 0, artifacts |-> << >>,
          sessions |-> sessions]
    ELSE [error |-> "none", calls |-> 0,
          artifacts |-> SortedDesc(sessions[session_id].artifacts),
          sessions |-> sessions]

(***************************************************************************)
(* InterviewService.get_artifact                                           *)
(***************************************************************************)
GetArtifactUnchecked(session_id, artifact_id) ==
    IF get_session_error(session_id) # "none"
    THEN [error |-> get_session_error(session_id), calls |-> 0, artifact |-> NoArtifact,
          sessions |-> sessions]
    ELSE [error |-> "none", calls |-> 0,
          artifact |-> FindArtifact(sessions[session_id], artifact_id),
          sessions |-> sessions]
get_artifact(session_id, artifact_id) ==
    IF get_session_error(session_id) # "none"
    THEN [error |-> get_session_error(session_id), calls |-> 0, artifact |-> NoArtifact,
          sessions |-> sessions]
    ELSE LET artifact == FindArtifact(sessions[session_id], artifact_id)
         IN  [error |-> IF artifact = NoArtifact THEN "UnknownArtifact" ELSE "none",
              calls |-> 0, artifact |-> artifact, sessions |-> sessions]

(***************************************************************************)
(* InterviewService.store_file_artifact                                    *)
(*   written: what storage_path.write_bytes(data) does: "ok", or it raises *)
(*   OSError leaving no file ("fails") or a truncated one ("partial")      *)
(***************************************************************************)
FileValidationSizeOnly(filename, size) ==
    IF size > MAX_UPLOAD_BYTES THEN "ValueError" ELSE "none"
FileValidationBelowMax(filename, size) ==
    IF Lower(Suffix(filename)) \notin ALLOWED_FILE_EXTENSIONS THEN "ValueError"
    ELSE IF size >= MAX_UPLOAD_BYTES THEN "ValueError"
    ELSE "none"
FileValidationError(filename, size) ==
    IF Lower(Suffix(filename)) \notin ALLOWED_FILE_EXTENSIONS THEN "ValueError"
    ELSE IF size > MAX_UPLOAD_BYTES THEN "ValueError"
    ELSE "none"

\* line 220: storage_path.write_bytes(data) returns or raises OSError
WriteErrorIgnored(written) == "none"
WriteError(written) == IF written = "ok" THEN "none" ELSE "OSError"

store_file_artifact(session_id, filename, content_type, size, description, written, now) ==
    LET lookup == get_session_error(session_id)
        invalid == FileValidationError(filename, size)
        unchanged == [calls |-> 0, artifact |-> NoArtifact, sessions |-> sessions,
                      uuids |-> uuids, storage |-> storage]
    IN  IF lookup # "none" THEN [error |-> lookup] @@ unchanged
        ELSE IF invalid # "none" THEN [error |-> invalid] @@ unchanged
        ELSE LET artifact_id == uuids + 1
                 extension == Lower(Suffix(filename))
                 storage_path == StoragePath(session_id, artifact_id, extension)
                 artifact == [id |-> artifact_id, source |-> "file",
                              filename |-> Name(filename), content_type |-> content_type,
                              size_bytes |-> size, uploaded_at |-> now,
                              description |-> Strip(description), url |-> << >>,
                              storage_path |-> storage_path]
             IN  IF WriteError(written) = "none"
                 THEN [error |-> "none", calls |-> 0, artifact |-> artifact,
                       sessions |-> [sessions EXCEPT ![session_id] = AddArtifact(@, artifact)],
                       uuids |-> artifact_id,
                       storage |-> Put(storage, storage_path, size)]
                 ELSE [error |-> WriteError(written), calls |-> 0, artifact |-> NoArtifact,
                       sessions |-> sessions,
                       uuids |-> artifact_id,
                       storage |-> IF written = "partial" THEN Put(storage, storage_path, 0)
                                   ELSE storage]

(***************************************************************************)
(* InterviewService.store_link_artifact                                    *)
(***************************************************************************)
LinkValidationUntrimmed(url) ==
    IF url = << >> \/ Lower(Head(url)) \notin {"http://", "https://"}
    THEN "ValueError" ELSE "none"
LinkValidationError(url) ==
    LET cleaned_url == Strip(url)
    IN  IF cleaned_url = << >> \/ Lower(Head(cleaned_url)) \notin {"http://", "https://"}
        THEN "ValueError" ELSE "none"

store_link_artifact(session_id, url, description, now) ==
    LET lookup == get_session_error(session_id)
        invalid == LinkValidationError(url)
        unchanged == [calls |-> 0, artifact |-> NoArtifact, sessions |-> sessions,
                      uuids |-> uuids]
    IN  IF lookup # "none" THEN [error |-> lookup] @@ unchanged
        ELSE IF invalid # "none" THEN [error |-> invalid] @@ unchanged
        ELSE LET artifact_id == uuids + 1
                 artifact == [id |-> artifact_id, source |-> "link",
                              filename |-> NoFilename, content_type |-> "",
                              size_bytes |-> -1, uploaded_at |-> now,
                              description |-> Strip(description), url |-> Strip(url),
                              storage_path |-> NoPath]
             IN  [error |-> "none", calls |-> 0, artifact |-> artifact,
                  sessions |-> [sessions EXCEPT ![session_id] = AddArtifact(@, artifact)],
                  uuids |-> artifact_id]

(***************************************************************************)
(* Inputs: the answers of the Gateway and the arguments of the callers.    *)
(***************************************************************************)
FullEval(scores) ==
    JEval(JStr("summary"), JList(<<JStr("clear")>>), JList(<< >>), JMap(scores),
          JStr("continue"))

\* the answer of the repository's test double: an evaluation without scores
Welcome ==
    Content(JStr("Welcome"),
            JEval(JStr(""), JList(<< >>), JList(<< >>), JMap(<< >>), JStr("awaiting_candidate")),
            JStr("collect_response"))
Scored3 == Content(JStr("next"), FullEval("data_analysis" :> JNum(3)), JStr("dive_deeper"))
Scored5 == Content(JStr("next"), FullEval("data_analysis" :> JNum(5)), JStr("dive_deeper"))
\* no evaluation at all
Unscored == Content(JStr("next"), NoEval, Absent)
\* an evaluation holding only rubric_scores: a number sent as a string, and a
\* skill that is not in the catalog
Sparse ==
    Content(Absent,
            JEval(Absent, NoList, NoList,
                  JMap("automation" :> JStr("4") @@ "vba_macros" :> JNum(2)), Absent),
            Absent)
\* a score that is not a number
Worded == Content(JStr("next"), FullEval("data_analysis" :> JStr("high")), JStr("dive_deeper"))
\* next_best_action is an array
BadAction == Content(JStr("next"), FullEval("data_analysis" :> JNum(3)), JArr)

TurnObjects == {Welcome, Scored3, Scored5, Unscored, Sparse, Worded, BadAction}

TurnOutcomes ==
    {GatewayRaises}
    \cup {GatewayAnswers(LlmPayload(b, NoContent)) : b \in {"bad_json", "array"}}
    \cup {GatewayAnswers(LlmPayload("object", c)) : c \in TurnObjects}

Debrief ==
    SummaryContent(JStr("ready"), JMap("data_analysis" :> JNum(4)), JList(<<JStr("practice")>>))
NullScorecard == SummaryContent(JStr("ready"), [t |-> "null", m |-> << >>], NoList)

SummaryOutcomes ==
    {GatewayRaises}
    \cup {GatewayAnswers(LlmPayload(b, NoContent)) : b \in {"bad_json", "no_content"}}
    \cup {GatewayAnswers(LlmPayload("object", c)) : c \in {Debrief, NullScorecard}}

Messages == {"m1"}
\* skills the Gateway scores: the catalog and one skill outside it
Skills == SKILL_RUBRIC \cup {"vba_macros"}
\* ids a caller may present: every uuid the model can draw
Ids == 1..MaxUuid

Filenames ==
    {[dirs |-> << >>, parts |-> <<"candidate", ".XLSX">>],
     [dirs |-> << >>, parts |-> <<"notes", ".txt">>]}
Sizes == {100}
Urls == {<<" ", "https://", "x">>, <<"ftp://", "x">>}
Descriptions == {<<"pivot", " ">>}
ContentTypes == {"text/csv"}
Writes == {"ok"}

(***************************************************************************)
(* The service after construction, and its operations.                     *)
(***************************************************************************)
\* entries held by the store
RECURSIVE EntriesOf(_, _)
EntriesOf(store, S) ==
    IF S = {} THEN 0
    ELSE LET x == CHOOSE y \in S : TRUE
         IN  Len(store[x].messages) + Len(store[x].artifacts) + EntriesOf(store, S \ {x})
Entries(store) == EntriesOf(store, DOMAIN store)

Init ==
    /\ sessions = << >>
    /\ uuids = 0
    /\ storage = << >>
    /\ requests = {}

CreateSession ==
    \E o \in TurnOutcomes :
        /\ uuids < MaxUuid
        /\ Entries(sessions) + 3 <= MaxEntries
        /\ sessions' = create_session(o).sessions
        /\ uuids' = create_session(o).uuids
        /\ UNCHANGED <<storage, requests>>

Chat ==
    \E sid \in Ids, m \in Messages, o \in TurnOutcomes :
        /\ sid \in DOMAIN sessions => Entries(sessions) + 2 <= MaxEntries
        /\ sessions' = chat(sid, m, o).sessions
        /\ UNCHANGED <<uuids, storage, requests>>

Summarize ==
    \E sid \in Ids, o \in SummaryOutcomes :
        /\ sessions' = summarize(sid, o).sessions
        /\ UNCHANGED <<uuids, storage, requests>>

ListArtifacts ==
    \E sid \in Ids :
        /\ sessions' = list_artifacts(sid).sessions
        /\ UNCHANGED <<uuids, storage, requests>>

GetArtifact ==
    \E sid \in Ids, aid \in Ids :
        /\ sessions' = get_artifact(sid, aid).sessions
        /\ UNCHANGED <<uuids, storage, requests>>

StoreFileArtifact ==
    \E sid \in Ids, f \in Filenames, ct \in ContentTypes, n \in Sizes,
       d \in Descriptions, w \in Writes, now \in UtcNow :
        LET r == store_file_artifact(sid, f, ct, n, d, w, now)
        IN  /\ r.uuids <= MaxUuid
            /\ Entries(r.sessions) <= MaxEntries
            /\ sessions' = r.sessions
            /\ uuids' = r.uuids
            /\ storage' = r.storage
            /\ UNCHANGED requests

StoreLinkArtifact ==
    \E sid \in Ids, u \in Urls, d \in Descriptions, now \in UtcNow :
        LET r == store_link_artifact(sid, u, d, now)
        IN  /\ r.uuids <= MaxUuid
            /\ Entries(r.sessions) <= MaxEntries
            /\ sessions' = r.sessions
            /\ uuids' = r.uuids
            /\ UNCHANGED <<storage, requests>>

Next ==
    \/ CreateSession
    \/ Chat
    \/ Summarize
    \/ ListArtifacts
    \/ GetArtifact
    \/ StoreFileArtifact
    \/ StoreLinkArtifact

Spec == Init /\ [][Next]_vars

(***************************************************************************)
(* The interview operations alone: create_session, chat and summarize      *)
(* under every answer of the Gateway, without the artifact operations      *)
(* (which assign nothing to messages, transcript or the aggregates).       *)
(***************************************************************************)
TurnNext ==
    \/ CreateSession
    \/ Chat
    \/ Summarize

TurnSpec == Init /\ [][TurnNext]_vars

(***************************************************************************)
(* main.py: download_artifact.  A stored file is modelled by its length;   *)
(* a response by its status, its detail and, for a FileResponse, the bytes *)
(* sent with their media type and file name.                               *)
(***************************************************************************)
HttpError(status, detail) ==
    [status |-> status, detail |-> detail, bytes |-> -1, media_type |-> "",
     filename |-> NoFilename]

\* artifact.filename or path.name
DownloadName(artifact) ==
    IF artifact.filename # NoFilename THEN artifact.filename
    ELSE [dirs |-> << >>,
          parts |-> <<artifact.storage_path.artifact_id, artifact.storage_path.extension>>]

DownloadMissingAsClientError(session_id, artifact_id) ==
    LET found == get_artifact(session_id, artifact_id)
        artifact == found.artifact
    IN  IF found.error # "none" THEN HttpError(404, "Artifact not found")
        ELSE IF artifact.source # "file" \/ artifact.storage_path \notin DOMAIN storage
        THEN HttpError(400, "Artifact is not available for download")
        ELSE [status |-> 200, detail |-> "", bytes |-> storage[artifact.storage_path],
              media_type |-> IF artifact.content_type # "" THEN artifact.content_type
                             ELSE "application/octet-stream",
              filename |-> DownloadName(artifact)]
download_artifact(session_id, artifact_id) ==
    LET found == get_artifact(session_id, artifact_id)
        artifact == found.artifact
    IN  IF found.error # "none" THEN HttpError(404, "Artifact not found")
        ELSE IF artifact.source # "file" \/ artifact.storage_path = NoPath
        THEN HttpError(400, "Artifact is not available for download")
        ELSE IF artifact.storage_path \notin DOMAIN storage
        THEN HttpError(404, "Stored file could not be found")
        ELSE [status |-> 200, detail |-> "", bytes |-> storage[artifact.storage_path],
              media_type |-> IF artifact.content_type # "" THEN artifact.content_type
                             ELSE "application/octet-stream",
              filename |-> DownloadName(artifact)]

(***************************************************************************)
(* The artifact operations under the arguments that decide them: names     *)
(* with and without an allowed extension, lengths on both sides of the     *)
(* limit, links with and without an accepted scheme, writes that fail.     *)
(* The Gateway answers every turn with the welcome object or raises.       *)
(***************************************************************************)
MaxStoreUuid == 3

StoreIds == 1..MaxStoreUuid
StoreOutcomes == {GatewayRaises, GatewayAnswers(LlmPayload("object", Welcome))}
UploadNames ==
    {[dirs |-> << >>, parts |-> <<"candidate", ".XLSX">>],
     [dirs |-> <<"tmp">>, parts |-> <<"extract", ".csv">>],
     [dirs |-> << >>, parts |-> <<"notes", ".txt">>],
     [dirs |-> << >>, parts |-> <<"", ".csv">>],
     [dirs |-> << >>, parts |-> <<"workbook">>]}
UploadSizes == {0, MAX_UPLOAD_BYTES, MAX_UPLOAD_BYTES + 1}
UploadTypes == {"", "text/csv"}
UploadWrites == {"ok", "partial", "fails"}
\* the uploads the clients make: a name, a content type, bytes, and what the write does
Upload(dirs, parts, content_type, size, written) ==
    [filename |-> [dirs |-> dirs, parts |-> parts], content_type |-> content_type,
     size |-> size, written |-> written]
Uploads ==
    {Upload(<< >>, <<"candidate", ".XLSX">>, "", 0, "ok"),
     Upload(<<"tmp">>, <<"extract", ".csv">>, "text/csv", MAX_UPLOAD_BYTES, "ok"),
     Upload(<< >>, <<"candidate", ".XLSX">>, "", MAX_UPLOAD_BYTES + 1, "ok"),
     Upload(<< >>, <<"notes", ".txt">>, "", 0, "ok"),
     Upload(<<"tmp">>, <<"extract", ".csv">>, "text/csv", 0, "partial"),
     Upload(<<"tmp">>, <<"extract", ".csv">>, "text/csv", 0, "fails")}
LinkUrls ==
    {<<" ", "https://", "x", " ">>, <<"HTTP://", "x">>, <<"ftp://", "x">>,
     <<" ", " ">>, << >>}
Notes == {<<" ", "pivot", " ">>}

PostSession ==
    \E o \in StoreOutcomes :
        /\ uuids < MaxStoreUuid
        /\ Entries(sessions) + 3 <= MaxEntries
        /\ sessions' = create_session(o).sessions
        /\ uuids' = create_session(o).uuids
        /\ UNCHANGED <<storage, requests>>

PostChat ==
    \E sid \in StoreIds, m \in Messages, o \in StoreOutcomes :
        /\ sid \in DOMAIN sessions => Entries(sessions) + 2 <= MaxEntries
        /\ sessions' = chat(sid, m, o).sessions
        /\ UNCHANGED <<uuids, storage, requests>>

Summary ==
    \E sid \in StoreIds, o \in SummaryOutcomes :
        /\ sessions' = summarize(sid, o).sessions
        /\ UNCHANGED <<uuids, storage, requests>>

GetArtifacts ==
    \E sid \in StoreIds :
        /\ sessions' = list_artifacts(sid).sessions
        /\ UNCHANGED <<uuids, storage, requests>>

DownloadArtifact ==
    \E sid \in StoreIds, aid \in StoreIds :
        /\ download_artifact(sid, aid).status \in {200, 400, 404}
        /\ sessions' = get_artifact(sid, aid).sessions
        /\ UNCHANGED <<uuids, storage, requests>>

UploadArtifact ==
    \E sid \in StoreIds, up \in Uploads, d \in Notes, now \in UtcNow :
        LET r == store_file_artifact(sid, up.filename, up.content_type, up.size, d,
                                     up.written, now)
        IN  /\ r.uuids <= MaxStoreUuid
            /\ Entries(r.sessions) <= MaxEntries
            /\ sessions' = r.sessions
            /\ uuids' = r.uuids
            /\ storage' = r.storage
            /\ UNCHANGED requests

LinkArtifact ==
    \E sid \in StoreIds, u \in LinkUrls, d \in Notes, now \in UtcNow :
        LET r == store_link_artifact(sid, u, d, now)
        IN  /\ r.uuids <= MaxStoreUuid
            /\ Entries(r.sessions) <= MaxEntries
            /\ sessions' = r.sessions
            /\ uuids' = r.uuids
            /\ UNCHANGED <<storage, requests>>

ArtifactNext ==
    \/ PostSession
    \/ PostChat
    \/ Summary
    \/ GetArtifacts
    \/ DownloadArtifact
    \/ UploadArtifact
    \/ LinkArtifact

ArtifactSpec == Init /\ [][ArtifactNext]_vars

(***************************************************************************)
(* The uploads directory is a directory of the host: a file the service    *)
(* wrote can be removed by something other than the service, which is the  *)
(* case download_artifact tests with path.exists().                        *)
(***************************************************************************)
RemoveStoredFile ==
    \E path \in DOMAIN storage :
        /\ storage' = [p \in DOMAIN storage \ {path} |-> storage[p]]
        /\ UNCHANGED <<sessions, uuids, requests>>

HostNext == ArtifactNext \/ RemoveStoredFile

HostSpec == Init /\ [][HostNext]_vars

(***************************************************************************)
(* main.py, lines 114-152: the handlers of create_session, chat and        *)
(* summary are coroutines that call the synchronous service and await      *)
(* nothing.  A handler that has started keeps the thread of the event loop *)
(* until it returns, the time it spends inside the blocking Gateway call   *)
(* (llm_client.py, line 40) included.  A request is "accepted" while it    *)
(* waits for the loop and "gateway" while its handler is suspended in      *)
(* chat_completion.  The service itself takes no lock.                     *)
(***************************************************************************)
\* requests the server holds unanswered at one time
MaxRequests == 2

LoopMessages == {"m1", "m2"}
Request(op, session_id, message) ==
    [op |-> op, session_id |-> session_id, message |-> message, at |-> "accepted"]
ClientRequests ==
    {Request("create_session", 0, "")}
    \cup {Request("chat", sid, m) : sid \in Ids, m \in LoopMessages}
    \cup {Request("summary", sid, "") : sid \in Ids}

AtGateway(r) == [r EXCEPT !.at = "gateway"]

\* the thread of the event loop is free to start a handler: none is inside its
\* service call
HandlersInThreads(reqs) == TRUE
LoopFree(reqs) == \A r \in reqs : r.at # "gateway"

AcceptRequest ==
    \E r \in ClientRequests \ requests :
        /\ Cardinality(requests) < MaxRequests
        /\ requests' = requests \cup {r}
        /\ UNCHANGED <<sessions, uuids, storage>>

\* create_session up to its Gateway call: lines 106-125
BeginCreateSession(r) ==
    /\ r \in requests
    /\ r.op = "create_session" /\ r.at = "accepted"
    /\ LoopFree(requests)
    /\ uuids < MaxUuid
    /\ Entries(sessions) + 3 <= MaxEntries
    /\ uuids' = uuids + 1
    /\ requests' = (requests \ {r}) \cup {[AtGateway(r) EXCEPT !.session_id = uuids + 1]}
    /\ UNCHANGED <<sessions, storage>>

\* create_session from the return of the Gateway call: lines 125-131
ResumeCreateSession(r, outcome) ==
    /\ r \in requests
    /\ r.op = "create_session" /\ r.at = "gateway"
    /\ sessions' = create_session_as(r.session_id, outcome).sessions
    /\ requests' = requests \ {r}
    /\ UNCHANGED <<uuids, storage>>

\* chat up to its Gateway call: lines 135-143; an unknown session is answered 404
BeginChat(r) ==
    /\ r \in requests
    /\ r.op = "chat" /\ r.at = "accepted"
    /\ LoopFree(requests)
    /\ IF get_session_error(r.session_id) # "none"
       THEN /\ requests' = requests \ {r}
            /\ UNCHANGED sessions
       ELSE /\ Entries(sessions) + 2 <= MaxEntries
            /\ sessions' = [sessions EXCEPT
                              ![r.session_id] = AppendUserMessage(@, r.message)]
            /\ requests' = (requests \ {r}) \cup {AtGateway(r)}
    /\ UNCHANGED <<uuids, storage>>

\* chat from the return of the Gateway call: lines 143-153
ResumeChat(r, outcome) ==
    /\ r \in requests
    /\ r.op = "chat" /\ r.at = "gateway"
    /\ sessions' = [sessions EXCEPT
                      ![r.session_id] = chat_answered(@, r.message, outcome).session]
    /\ requests' = requests \ {r}
    /\ UNCHANGED <<uuids, storage>>

\* summarize up to its Gateway call: lines 157-172
BeginSummary(r) ==
    /\ r \in requests
    /\ r.op = "summary" /\ r.at = "accepted"
    /\ LoopFree(requests)
    /\ requests' = IF get_session_error(r.session_id) # "none"
                   THEN requests \ {r}
                   ELSE (requests \ {r}) \cup {AtGateway(r)}
    /\ UNCHANGED <<sessions, uuids, storage>>

\* summarize from the return of the Gateway call: lines 172-191
ResumeSummary(r, outcome) ==
    /\ r \in requests
    /\ r.op = "summary" /\ r.at = "gateway"
    /\ sessions' = summarize(r.session_id, outcome).sessions
    /\ requests' = requests \ {r}
    /\ UNCHANGED <<uuids, storage>>

LoopNext ==
    \/ AcceptRequest
    \/ \E r \in requests : BeginCreateSession(r)
    \/ \E r \in requests, o \in StoreOutcomes : ResumeCreateSession(r, o)
    \/ \E r \in requests : BeginChat(r)
    \/ \E r \in requests, o \in StoreOutcomes : ResumeChat(r, o)
    \/ \E r \in requests : BeginSummary(r)
    \/ \E r \in requests, o \in SummaryOutcomes : ResumeSummary(r, o)

LoopSpec == Init /\ [][LoopNext]_vars

(***************************************************************************)
(* Properties.                                                             *)
(***************************************************************************)
AnswersObject(c) == GatewayAnswers(LlmPayload("object", c))

\* the value the Gateway's answer c gives skill S, Absent if it gives none
RawScore(c, S) ==
    IF c.evaluation.t = "obj" /\ c.evaluation.rubric_scores.t = "obj"
       /\ S \in DOMAIN c.evaluation.rubric_scores.m
    THEN c.evaluation.rubric_scores.m[S] ELSE Absent

\* the JSON numbers the recorded answers of a session give skill S: how many, and their sum
RECURSIVE SuppliedCount(_, _)
SuppliedCount(messages, S) ==
    IF messages = << >> THEN 0
    ELSE SuppliedCount(Tail(messages), S)
         + (IF Head(messages).role = "assistant" /\ RawScore(Head(messages).json, S).t = "num"
            THEN 1 ELSE 0)
RECURSIVE SuppliedSum(_, _)
SuppliedSum(messages, S) ==
    IF messages = << >> THEN 0
    ELSE SuppliedSum(Tail(messages), S)
         + (IF Head(messages).role = "assistant" /\ RawScore(Head(messages).json, S).t = "num"
            THEN RawScore(Head(messages).json, S).n ELSE 0)

(* C1: when the Gateway call inside chat fails (the transport raises or the
   response cannot be parsed), the session is exactly as it was before the
   call.  Stated of every step that is such a chat. *)
C1_FailedChatLeavesSession ==
    [][\A sid \in DOMAIN sessions, m \in Messages, o \in TurnOutcomes :
          (GatewayError(o) # "none" /\ sessions' = chat(sid, m, o).sessions)
              => sessions'[sid] = sessions[sid]]_vars

(* C2: the running average reported for a skill is the sum of the numeric
   values the Gateway supplied for it on the recorded turns divided by their
   number (a sum, so independent of the order of arrival). *)
C2_AverageOfSuppliedValues ==
    \A sid \in DOMAIN sessions, S \in Skills :
        LET n == SuppliedCount(sessions[sid].messages, S)
            total == SuppliedSum(sessions[sid].messages, S)
            reported == running_scores(sessions[sid])
        IN  /\ S \in DOMAIN reported <=> n > 0
            /\ n > 0 => reported[S] = Divide(total, n)

\* the scenario of C3: a session whose create_session answer carried no score ...
AfterCreate(session) ==
    /\ Len(session.messages) = 3
    /\ session.messages[3].json \in {Welcome, Unscored}
\* ... and whose first chat was answered with rubric_scores {data_analysis: 3}
AfterFirstChat(session) ==
    /\ Len(session.messages) = 5
    /\ session.messages[3].json \in {Welcome, Unscored}
    /\ session.messages[5].json = Scored3
AfterSecondChat(session) ==
    /\ Len(session.messages) = 7
    /\ session.messages[3].json \in {Welcome, Unscored}
    /\ session.messages[5].json = Scored3
    /\ session.messages[7].json = Scored5

Scenario(turns) ==
    \A sid \in DOMAIN sessions, m \in Messages :
        /\ AfterCreate(sessions[sid]) =>
              LET r == chat(sid, m, AnswersObject(Scored3))
              IN  r.error = "none" /\ r.running_scores = ("data_analysis" :> Float(3))
        /\ AfterFirstChat(sessions[sid]) =>
              LET r == chat(sid, m, AnswersObject(Scored5))
              IN  /\ r.error = "none"
                  /\ r.running_scores = ("data_analysis" :> Float(4))
                  /\ r.total_turns = turns

(* C3 as stated: create_session, a chat scored {data_analysis: 3}, a chat
   scored {data_analysis: 5}: the first chat returns running_scores
   {data_analysis: 3.0}, the second {data_analysis: 4.0} and total_turns 2. *)
C3_ScenarioTwoTurns == Scenario(2)

(* C3 amended: as above, but the second chat returns total_turns 3: the
   transcript also holds the turn create_session recorded. *)
C3_ScenarioThreeTurns == Scenario(3)

C3_Witness ==
    \E sid \in DOMAIN sessions :
        /\ AfterSecondChat(sessions[sid])
        /\ Len(sessions[sid].transcript) = 3
        /\ running_scores(sessions[sid]) = ("data_analysis" :> Float(4))


(* C4: while a turn is recorded, a rubric_scores entry that is not a JSON
   number, or is absent, changes neither the total nor the count of its
   skill.  Stated of every step that is a create_session or a chat answered
   with a JSON object. *)
C4_NonNumericEntriesIgnored ==
    [][/\ \A c \in TurnObjects :
             (/\ create_session(AnswersObject(c)).error = "none"
              /\ uuids' = create_session(AnswersObject(c)).uuids
              /\ sessions' = create_session(AnswersObject(c)).sessions)
                 => \A S \in Skills : RawScore(c, S).t # "num" =>
                       /\ Get(sessions'[uuids'].score_totals, S, 0) = 0
                       /\ Get(sessions'[uuids'].score_counts, S, 0) = 0
       /\ \A sid \in DOMAIN sessions, m \in Messages, c \in TurnObjects :
             sessions' = chat(sid, m, AnswersObject(c)).sessions
                 => \A S \in Skills : RawScore(c, S).t # "num" =>
                       /\ Get(sessions'[sid].score_totals, S, 0)
                             = Get(sessions[sid].score_totals, S, 0)
                       /\ Get(sessions'[sid].score_counts, S, 0)
                             = Get(sessions[sid].score_counts, S, 0)]_vars

(* C5: every Gateway response whose content parses as a JSON object makes
   create_session and chat succeed and record a turn: create_session
   registers the session with its first turn, chat adds one turn. *)
C5_ObjectRepliesAreRecorded ==
    [][/\ \A c \in TurnObjects :
             (/\ uuids' = create_session(AnswersObject(c)).uuids
              /\ sessions' = create_session(AnswersObject(c)).sessions
              /\ storage' = storage)
                 => /\ uuids' \in DOMAIN sessions'
                    /\ Len(sessions'[uuids'].transcript) = 1
       /\ \A sid \in DOMAIN sessions, m \in Messages, c \in TurnObjects :
             (/\ sessions' = chat(sid, m, AnswersObject(c)).sessions
              /\ UNCHANGED <<uuids, storage>>)
                 => Len(sessions'[sid].transcript) = Len(sessions[sid].transcript) + 1]_vars

\* no recorded turn of the session scores skill S, and no chat stopped part-way
NoScoreYet(session, S) ==
    /\ \A i \in 1..Len(session.transcript) :
          S \notin DOMAIN session.transcript[i].evaluation.rubric_scores
    /\ Len(session.messages) = 2 * Len(session.transcript) + 1

(* C6: in every registered session each skill of the rubric catalog is a key
   of the score totals and of the score counts, with total 0 and count 0
   while no score for it has been recorded, also when no Gateway response
   ever mentioned the skill. *)
C6_CatalogSkillsSeeded ==
    \A sid \in DOMAIN sessions :
        /\ SKILL_RUBRIC \subseteq DOMAIN sessions[sid].score_totals
        /\ SKILL_RUBRIC \subseteq DOMAIN sessions[sid].score_counts
        /\ \A S \in SKILL_RUBRIC :
              /\ sessions[sid].score_counts[S] = 0 => sessions[sid].score_totals[S] = 0
              /\ NoScoreYet(sessions[sid], S) =>
                    /\ sessions[sid].score_counts[S] = 0
                    /\ sessions[sid].score_totals[S] = 0

C6_Witness ==
    \E sid \in DOMAIN sessions :
        /\ Len(sessions[sid].transcript) = 2
        /\ sessions[sid].score_counts["data_analysis"] = 1
        /\ NoScoreYet(sessions[sid], "storytelling")
        /\ sessions[sid].score_counts["storytelling"] = 0

(* C7: the running_scores a chat returns holds exactly the skills whose
   count is above zero, each with total / count; a skill whose count is zero
   is left out, so no division by zero takes place. *)
C7_RunningScoresOnlyCounted ==
    \A sid \in DOMAIN sessions, m \in Messages, o \in TurnOutcomes :
        LET r == chat(sid, m, o)
            after == r.sessions[sid]
        IN  r.error = "none" =>
               /\ \A S \in Skills :
                     S \in DOMAIN r.running_scores <=> Get(after.score_counts, S, 0) > 0
               /\ \A S \in DOMAIN r.running_scores :
                     /\ r.running_scores[S].den # 0
                     /\ r.running_scores[S]
                           = Divide(after.score_totals[S], after.score_counts[S])

C7_Witness ==
    \E sid \in DOMAIN sessions :
        /\ Len(sessions[sid].transcript) >= 2
        /\ "data_analysis" \in DOMAIN running_scores(sessions[sid])
        /\ sessions[sid].score_counts["automation"] = 0
        /\ "automation" \notin DOMAIN running_scores(sessions[sid])

\* the session ids no successful create_session has returned
Unregistered == Ids \ DOMAIN sessions

(* C8: with a session id that no successful create_session returned, chat,
   summarize, list_artifacts, store_file_artifact, store_link_artifact and
   get_artifact fail with the unknown-session error, make no Gateway call
   and change no state. *)
C8_UnknownSessionRejected ==
    \A sid \in Unregistered :
        /\ \A m \in Messages, o \in TurnOutcomes :
              LET r == chat(sid, m, o)
              IN  r.error = "UnknownSession" /\ r.calls = 0 /\ r.sessions = sessions
        /\ \A o \in SummaryOutcomes :
              LET r == summarize(sid, o)
              IN  r.error = "UnknownSession" /\ r.calls = 0 /\ r.sessions = sessions
        /\ list_artifacts(sid).error = "UnknownSession"
        /\ \A aid \in Ids : get_artifact(sid, aid).error = "UnknownSession"
        /\ \A f \in Filenames, ct \in ContentTypes, z \in Sizes, d \in Descriptions,
              w \in Writes, now \in UtcNow :
              LET r == store_file_artifact(sid, f, ct, z, d, w, now)
              IN  /\ r.error = "UnknownSession" /\ r.calls = 0
                  /\ r.sessions = sessions /\ r.uuids = uuids /\ r.storage = storage
        /\ \A u \in Urls, d \in Descriptions, now \in UtcNow :
              LET r == store_link_artifact(sid, u, d, now)
              IN  /\ r.error = "UnknownSession" /\ r.calls = 0
                  /\ r.sessions = sessions /\ r.uuids = uuids

C8_Witness ==
    /\ DOMAIN sessions # {}
    /\ \E sid \in Unregistered :
          /\ sid <= uuids
          /\ \A m \in Messages : chat(sid, m, GatewayRaises).error = "UnknownSession"

(* C9: a create_session whose Gateway call fails, or whose response cannot be
   parsed, registers no session: the store of sessions is as it was and no
   id is returned; and an id that was drawn without being registered is
   never registered later. *)
C9_FailedCreateRegistersNothing ==
    /\ [](\A o \in TurnOutcomes :
             GatewayError(o) # "none" =>
                /\ create_session(o).error # "none"
                /\ create_session(o).sessions = sessions
                /\ create_session(o).session_id = 0)
    /\ [][\A i \in 1..uuids : i \notin DOMAIN sessions => i \notin DOMAIN sessions']_vars

\* a create_session has failed: its id was drawn and names neither a session nor an artifact
C9_Witness ==
    \E i \in 1..uuids :
        /\ i \notin DOMAIN sessions
        /\ \A a \in AllArtifacts : a.id # i
        /\ DOMAIN sessions # {}

(* C10: summarize, whether it succeeds or fails, leaves the message history,
   the transcript, the score totals and counts and the artifact list of the
   session as they were. *)
C10_SummarizeReadOnly ==
    \A sid \in DOMAIN sessions, o \in SummaryOutcomes :
        /\ summarize(sid, o).sessions = sessions
        /\ summarize(sid, o).error = "none" =>
              summarize(sid, o).transcript = sessions[sid].transcript

C10_Witness ==
    \E sid \in DOMAIN sessions :
        /\ Len(sessions[sid].transcript) >= 2
        /\ Len(sessions[sid].artifacts) >= 1
        /\ summarize(sid, AnswersObject(Debrief)).error = "none"
        /\ summarize(sid, GatewayRaises).error # "none"

\* what the artifact operations compute from the session object they are given
ArtifactViews(session) ==
    [listed |-> SortedDesc(session.artifacts),
     found |-> [aid \in Ids |-> FindArtifact(session, aid)],
     added |-> [a \in AllArtifacts |-> AddArtifact(session, a)]]

(* C11: summarize is not a terminal transition.  On the session a summarize
   leaves behind, whatever the Gateway answered, each chat is accepted and has
   the outcome and the effect it has on the session as it is now, and so has
   each artifact operation. *)
C11_SummarizeNotTerminal ==
    \A sid \in DOMAIN sessions, so \in SummaryOutcomes :
        LET left == summarize(sid, so).sessions
        IN  /\ sid \in DOMAIN left
            /\ \A m \in Messages, o \in TurnOutcomes :
                  chat_session(left[sid], m, o) = chat_session(sessions[sid], m, o)
            /\ ArtifactViews(left[sid]) = ArtifactViews(sessions[sid])

\* a session with a chat turn and an artifact that summarize answers for,
\* and on which a further chat is recorded
C11_Witness ==
    \E sid \in DOMAIN sessions :
        /\ Len(sessions[sid].transcript) = 2
        /\ Len(sessions[sid].artifacts) = 1
        /\ summarize(sid, AnswersObject(Debrief)).error = "none"
        /\ \A m \in Messages :
              chat_session(summarize(sid, AnswersObject(Debrief)).sessions[sid], m,
                           AnswersObject(Scored5)).total_turns = 3

\* the last part of a file name, in lower case: its extension if it has one
LastPart(filename) == Lower(filename.parts[Len(filename.parts)])
NotesTxt == [dirs |-> << >>, parts |-> <<"notes", ".txt">>]

(* C12: on an existing session store_file_artifact fails with the
   validation error whenever the extension of the file name, compared without
   regard to case, is none of the allowed ones, whatever the bytes, their
   length and the outcome a write would have had; no artifact is added, no
   id drawn and nothing written to storage. *)
C12_DisallowedExtensionRejected ==
    \A sid \in DOMAIN sessions, f \in UploadNames, ct \in UploadTypes, n \in UploadSizes,
       d \in Notes, w \in UploadWrites, now \in UtcNow :
        LET r == store_file_artifact(sid, f, ct, n, d, w, now)
        IN  LastPart(f) \notin ALLOWED_FILE_EXTENSIONS =>
               /\ r.error = "ValueError"
               /\ r.sessions = sessions
               /\ r.uuids = uuids
               /\ r.storage = storage

\* notes.txt is offered to a session that already holds an artifact
C12_Witness ==
    \E sid \in DOMAIN sessions :
        /\ Len(sessions[sid].artifacts) >= 1
        /\ \A n \in UploadSizes, now \in UtcNow :
              store_file_artifact(sid, NotesTxt, "", n, << >>, "ok", now).error = "ValueError"

(* C13: for a file name with an allowed extension on an existing session,
   store_file_artifact fails with the validation error, adding nothing, if
   the length is above the maximum, and records the artifact if the length is
   at most the maximum (the maximum itself included) and the write succeeds. *)
C13_SizeLimitInclusive ==
    \A sid \in DOMAIN sessions, f \in UploadNames, ct \in UploadTypes, n \in UploadSizes,
       d \in Notes, now \in UtcNow :
        LET r == store_file_artifact(sid, f, ct, n, d, "ok", now)
        IN  Lower(Suffix(f)) \in ALLOWED_FILE_EXTENSIONS =>
               /\ n > MAX_UPLOAD_BYTES =>
                     /\ r.error = "ValueError"
                     /\ r.sessions = sessions /\ r.uuids = uuids /\ r.storage = storage
               /\ n <= MAX_UPLOAD_BYTES =>
                     /\ r.error = "none"
                     /\ r.artifact.size_bytes = n
                     /\ r.sessions[sid].artifacts = Append(sessions[sid].artifacts, r.artifact)

\* a file of exactly the maximum length has been stored
C13_Witness ==
    \E a \in AllArtifacts :
        /\ a.source = "file"
        /\ a.size_bytes = MAX_UPLOAD_BYTES
        /\ a.storage_path \in DOMAIN storage

\* the url, once the blanks before it are dropped, begins with http:// or https://
HasWebScheme(url) ==
    \E i \in 1..Len(url) :
        /\ \A j \in 1..(i - 1) : url[j] = " "
        /\ url[i] \in {"http://", "https://", "HTTP://", "HTTPS://"}

(* C14: on an existing session store_link_artifact succeeds if and only if
   the url, trimmed of surrounding blanks, is not empty and its scheme is
   http or https; it fails with the validation error for ftp://x and for a
   url of blanks, and a failure adds no artifact. *)
C14_LinkAcceptedIffWebScheme ==
    \A sid \in DOMAIN sessions, u \in LinkUrls, d \in Notes, now \in UtcNow :
        LET r == store_link_artifact(sid, u, d, now)
        IN  /\ r.error = "none" <=> HasWebScheme(u)
            /\ u \in {<<"ftp://", "x">>, <<" ", " ">>} => r.error = "ValueError"
            /\ r.error # "none" =>
                  /\ r.error = "ValueError"
                  /\ r.sessions = sessions
                  /\ r.uuids = uuids
            /\ r.error = "none" =>
                  r.sessions[sid].artifacts = Append(sessions[sid].artifacts, r.artifact)

\* the link given with blanks around it has been recorded
C14_Witness ==
    \E a \in AllArtifacts :
        /\ a.source = "link"
        /\ a.url = <<"https://", "x">>

(* C15: every link artifact recorded in a session has a url that begins with
   http:// or https://, written so, and has no storage reference. *)
C15_LinkUrlPrefix ==
    \A a \in AllArtifacts :
        a.source = "link" =>
           /\ a.url # << >>
           /\ Head(a.url) \in {"http://", "https://"}
           /\ a.storage_path = NoPath

(* C16: every file artifact recorded in a session has a storage reference
   made of the id of its session and its own id, under which storage holds
   bytes; its recorded size is the length of those bytes, is at most the
   maximum, and its extension is an allowed one. *)
C16_FileArtifactStored ==
    \A sid \in DOMAIN sessions :
        \A i \in 1..Len(sessions[sid].artifacts) :
            LET a == sessions[sid].artifacts[i]
            IN  a.source = "file" =>
                   /\ a.storage_path # NoPath
                   /\ a.storage_path.session_id = sid
                   /\ a.storage_path.artifact_id = a.id
                   /\ a.storage_path \in DOMAIN storage
                   /\ storage[a.storage_path] = a.size_bytes
                   /\ a.size_bytes >= 0
                   /\ a.size_bytes <= MAX_UPLOAD_BYTES
                   /\ a.storage_path.extension \in ALLOWED_FILE_EXTENSIONS
                   /\ LastPart(a.filename) = a.storage_path.extension

\* a file is recorded in the second of two sessions, the first holding none
C16_Witness ==
    \E sid \in DOMAIN sessions :
        /\ sid > 1
        /\ Cardinality(DOMAIN sessions) = 2
        /\ Len(sessions[sid].artifacts) = 1
        /\ sessions[sid].artifacts[1].source = "file"
        /\ sessions[sid].artifacts[1].storage_path \in DOMAIN storage

Reversed(xs) == [i \in 1..Len(xs) |-> xs[Len(xs) + 1 - i]]

(* C17: list_artifacts returns exactly the artifacts stored in the session,
   one stored later before one stored earlier, so the artifact of the most
   recent store comes first. *)
C17_ListedLatestFirst ==
    \A sid \in DOMAIN sessions :
        /\ list_artifacts(sid).error = "none"
        /\ list_artifacts(sid).artifacts = Reversed(sessions[sid].artifacts)

\* the artifact ids a session holds
HeldIds(sid) == {sessions[sid].artifacts[i].id : i \in 1..Len(sessions[sid].artifacts)}

GetArtifactOutcome(unknownSession) ==
    \A sid \in StoreIds, aid \in StoreIds :
        LET r == get_artifact(sid, aid)
        IN  /\ r.sessions = sessions
            /\ sid \notin DOMAIN sessions => r.error = unknownSession
            /\ (sid \in DOMAIN sessions /\ aid \notin HeldIds(sid)) =>
                  r.error = "UnknownArtifact"
            /\ (sid \in DOMAIN sessions /\ aid \in HeldIds(sid)) =>
                  /\ r.error = "none"
                  /\ r.artifact.id = aid
                  /\ \E i \in 1..Len(sessions[sid].artifacts) :
                        r.artifact = sessions[sid].artifacts[i]

(* C18 as stated: get_artifact fails with the unknown-artifact error when
   the session id was never created and when the session holds no artifact
   with that id, and otherwise returns the artifact recorded under the id,
   leaving the state as it was. *)
C18_UnknownIdsAreUnknownArtifact == GetArtifactOutcome("UnknownArtifact")

(* C18 amended: as above, but for a session id that was never created
   get_artifact fails with the unknown-session error, the one every other
   operation fails with. *)
C18_UnknownSessionBeforeArtifact == GetArtifactOutcome("UnknownSession")

\* one id names a session, one an artifact it holds, and one neither
C18_Witness ==
    \E sid \in DOMAIN sessions, aid \in StoreIds, other \in StoreIds :
        /\ get_artifact(sid, aid).error = "none"
        /\ get_artifact(sid, other).error = "UnknownArtifact"
        /\ get_artifact(other, aid).error = "UnknownSession"

(* C19: an artifact belongs to one session: it is not in the list of
   another session and get_artifact fails for it there; and what a session
   has recorded is never changed or removed by a later operation. *)
C19_ArtifactOwnedAndImmutable ==
    /\ [](\A A \in DOMAIN sessions, B \in DOMAIN sessions :
             A # B =>
                \A i \in 1..Len(sessions[A].artifacts) :
                    LET a == sessions[A].artifacts[i]
                    IN  /\ \A j \in 1..Len(list_artifacts(B).artifacts) :
                              /\ list_artifacts(B).artifacts[j] # a
                              /\ list_artifacts(B).artifacts[j].id # a.id
                        /\ get_artifact(B, a.id).error = "UnknownArtifact"
                        /\ get_artifact(A, a.id).artifact = a)
    /\ [][\A sid \in DOMAIN sessions :
             /\ sid \in DOMAIN sessions'
             /\ Len(sessions'[sid].artifacts) >= Len(sessions[sid].artifacts)
             /\ \A i \in 1..Len(sessions[sid].artifacts) :
                   sessions'[sid].artifacts[i] = sessions[sid].artifacts[i]]_vars

\* two sessions, and an artifact of the one that the other does not hold
C19_Witness ==
    \E A \in DOMAIN sessions, B \in DOMAIN sessions :
        /\ A # B
        /\ Len(sessions[A].artifacts) >= 1
        /\ get_artifact(B, sessions[A].artifacts[1].id).error = "UnknownArtifact"

\* the case download_artifact is in: the artifact a request names, if any, and its bytes
DownloadCase(sid, aid) ==
    IF sid \notin DOMAIN sessions THEN "no session"
    ELSE IF aid \notin HeldIds(sid) THEN "no artifact"
    ELSE IF FindArtifact(sessions[sid], aid).source = "link" THEN "link"
    ELSE IF FindArtifact(sessions[sid], aid).storage_path \notin DOMAIN storage
    THEN "no bytes"
    ELSE "file"

(* C20: download_artifact answers 404 when the session is unknown, when the
   artifact id is unknown and when the stored bytes are missing, 400 when
   the artifact is a link, and sends the stored bytes only for a file
   artifact whose bytes exist. *)
C20_DownloadOutcomes ==
    \A sid \in StoreIds, aid \in StoreIds :
        LET r == download_artifact(sid, aid)
            case == DownloadCase(sid, aid)
        IN  /\ case \in {"no session", "no artifact", "no bytes"} => r.status = 404
            /\ case = "link" => r.status = 400
            /\ case = "file" =>
                  /\ r.status = 200
                  /\ r.bytes = storage[FindArtifact(sessions[sid], aid).storage_path]
                  /\ r.bytes = FindArtifact(sessions[sid], aid).size_bytes
            /\ r.status # 200 => r.bytes = -1

\* a session holding a link and a file whose bytes the host has removed
C20_Witness ==
    \E sid \in DOMAIN sessions, file \in StoreIds, link \in StoreIds :
        /\ DownloadCase(sid, file) = "no bytes"
        /\ DownloadCase(sid, link) = "link"
        /\ download_artifact(sid, file).detail = "Stored file could not be found"

\* the last entry of a message history
LastMessage(session) == session.messages[Len(session.messages)]

(* C21: two chats issued concurrently on one session are serialized.  While
   the handler of one is suspended at its Gateway call, the candidate
   message it appended is still the last entry of the history, every other
   request on that session is still waiting and cannot start, and the only
   step that changes the session is the completion of the suspended chat:
   the history, the transcript and the aggregates are those of the two
   chats run one after the other. *)
C21_SameSessionSerialized ==
    /\ [](\A a \in requests :
            (a.op = "chat" /\ a.at = "gateway") =>
                /\ LastMessage(sessions[a.session_id]) = Message("user", a.message)
                /\ \A b \in requests \ {a} :
                      b.session_id = a.session_id =>
                          /\ b.at = "accepted"
                          /\ ~ENABLED BeginChat(b)
                          /\ ~ENABLED BeginSummary(b))
    /\ [][\A a \in requests :
            (a.op = "chat" /\ a.at = "gateway"
             /\ sessions'[a.session_id] # sessions[a.session_id]) =>
                \E o \in StoreOutcomes :
                    sessions'[a.session_id]
                        = chat_answered(sessions[a.session_id], a.message, o).session]_vars

\* a chat on session 1 is suspended at the Gateway while a second chat on session 1,
\* with another candidate message, has been accepted
C21_Witness ==
    \E a, b \in requests :
        /\ a.op = "chat" /\ a.at = "gateway"
        /\ b.op = "chat" /\ b.at = "accepted"
        /\ a.session_id = b.session_id
        /\ a.message # b.message
        /\ Len(sessions[a.session_id].transcript) = 2

(* C22: operations on different sessions do not block each other: while a
   handler is suspended at its Gateway call, a waiting chat or summary of
   another registered session can start. *)
C22_OtherSessionsNotBlocked ==
    \A a, b \in requests :
        (/\ a.at = "gateway"
         /\ b.at = "accepted"
         /\ b.session_id # a.session_id
         /\ b.session_id \in DOMAIN sessions
         /\ Entries(sessions) + 2 <= MaxEntries)
            => ENABLED (BeginChat(b) \/ BeginSummary(b))

\* the exchanges a message history records: one assistant entry each (line 325)
RECURSIVE RecordedExchanges(_)
RecordedExchanges(messages) ==
    IF messages = << >> THEN 0
    ELSE RecordedExchanges(Tail(messages))
         + (IF Head(messages).role = "assistant" THEN 1 ELSE 0)

(* C23: the transcript of a registered session has one turn per completed
   Gateway exchange that records a turn: a successful create_session
   registers a transcript of one turn, a successful chat adds one turn and
   returns the new length as total_turns, a failed chat and summarize add
   none. *)
C23_TranscriptCountsExchanges ==
    /\ \A o \in TurnOutcomes :
          LET r == create_session(o)
          IN  r.error = "none" => Len(r.sessions[r.session_id].transcript) = 1
    /\ \A sid \in DOMAIN sessions :
          LET session == sessions[sid]
          IN  /\ Len(session.transcript) = RecordedExchanges(session.messages)
              /\ \A m \in Messages, o \in TurnOutcomes :
                    LET r == chat_session(session, m, o)
                    IN  IF r.error = "none"
                        THEN /\ Len(r.session.transcript) = Len(session.transcript) + 1
                             /\ r.total_turns = Len(r.session.transcript)
                        ELSE r.session.transcript = session.transcript
              /\ \A o \in SummaryOutcomes :
                    summarize(sid, o).sessions[sid].transcript = session.transcript

\* a session after one failed and one successful chat: six history entries, two turns
C23_Witness ==
    \E sid \in DOMAIN sessions :
        /\ Len(sessions[sid].messages) = 6
        /\ Len(sessions[sid].transcript) = 2
        /\ \E m \in Messages, o \in TurnOutcomes : chat_session(sessions[sid], m, o).error = "none"

\* xs is ys or ys cut short: every entry of xs is the entry of ys at its position
IsPrefix(xs, ys) == Len(xs) <= Len(ys) /\ SubSeq(ys, 1, Len(xs)) = xs

(* C24: a successful chat extends the message history by exactly two
   entries, the user entry holding the candidate message and then the
   assistant entry holding the serialized Gateway response; the Gateway is
   sent the whole history ending in that user entry; and over every step
   of every operation the history of a registered session keeps each of
   its entries at its position. *)
C24_HistoryAppendOnly ==
    /\ [](\A sid \in DOMAIN sessions, m \in Messages, o \in TurnOutcomes :
            LET session == sessions[sid]
                r == chat_session(session, m, o)
            IN  r.error = "none" =>
                    /\ r.session.messages
                          = session.messages
                            \o <<Message("user", m),
                                 AssistantMessage(extract_content(o.payload).obj)>>
                    /\ r.sent = Append(session.messages, Message("user", m)))
    /\ [][\A sid \in DOMAIN sessions :
            /\ sid \in DOMAIN sessions'
            /\ IsPrefix(sessions[sid].messages, sessions'[sid].messages)]_vars

\* a session after a successful chat: the candidate message, then the answer
C24_Witness ==
    \E sid \in DOMAIN sessions :
        LET messages == sessions[sid].messages
        IN  /\ Len(messages) = 5
            /\ messages[4] = Message("user", "m1")
            /\ messages[5] = AssistantMessage(Scored3)

(* C25: immediately after a successful create_session the session is
   registered under the returned id, its message history is exactly the
   system prompt, the bootstrap user message and the assistant response,
   and its transcript is exactly the returned first_turn. *)
C25_SessionAfterCreate ==
    \A o \in TurnOutcomes :
        LET r == create_session(o)
        IN  r.error = "none" =>
                /\ r.session_id \notin DOMAIN sessions
                /\ r.session_id \in DOMAIN r.sessions
                /\ r.sessions[r.session_id].messages
                      = <<Message("system", SYSTEM_PROMPT),
                          Message("user", BOOTSTRAP_PROMPT),
                          AssistantMessage(extract_content(o.payload).obj)>>
                /\ r.first_turn # NoTurn
                /\ r.sessions[r.session_id].transcript = <<r.first_turn>>

\* a session as a successful create_session registered it, next to an earlier one
C25_Witness ==
    /\ uuids = 2
    /\ 1 \in DOMAIN sessions
    /\ 2 \in DOMAIN sessions
    /\ sessions[2].messages
          = <<Message("system", SYSTEM_PROMPT), Message("user", BOOTSTRAP_PROMPT),
              AssistantMessage(Unscored)>>
    /\ Len(sessions[2].transcript) = 1

(* C26: in every reachable state the first turn of a registered session's
   transcript has no candidate message and every later turn has one; and
   over every step of every operation the transcript keeps each of its
   turns, unchanged, at its position: it only grows at its end. *)
C26_TranscriptImmutable ==
    /\ [](\A sid \in DOMAIN sessions :
            LET transcript == sessions[sid].transcript
            IN  /\ Len(transcript) >= 1
                /\ transcript[1].candidate_message = NoMessage
                /\ \A i \in 2..Len(transcript) :
                      /\ transcript[i].candidate_message.present
                      /\ transcript[i].candidate_message.role = "candidate")
    /\ [][\A sid \in DOMAIN sessions :
            /\ sid \in DOMAIN sessions'
            /\ IsPrefix(sessions[sid].transcript, sessions'[sid].transcript)]_vars

\* a session whose transcript holds the bootstrap turn and two chat turns
C26_Witness ==
    \E sid \in DOMAIN sessions :
        /\ Len(sessions[sid].transcript) = 3
        /\ sessions[sid].transcript[3].candidate_message = ChatMessage("candidate", "m1")

\* what recording the Gateway's answer c may do to the aggregates of the session:
\* nothing when its evaluation is missing or empty, else each JSON number of its
\* rubric_scores adds its value to the total and 1 to the count of its skill
FoldedAsSupplied(before, after, turn, c) ==
    /\ turn.evaluation.present = ~EvaluationFalsy(c.evaluation)
    /\ \A S \in Skills :
          LET supplied == RawScore(c, S)
              folds == ~EvaluationFalsy(c.evaluation) /\ supplied.t = "num"
          IN  /\ Get(after.score_totals, S, 0)
                    = Get(before.score_totals, S, 0) + (IF folds THEN supplied.n ELSE 0)
              /\ Get(after.score_counts, S, 0)
                    = Get(before.score_counts, S, 0) + (IF folds THEN 1 ELSE 0)

(* C27: a turn recorded from a Gateway response without an evaluation
   object, or with an empty one, has no evaluation snapshot and changes no
   skill's total or count; a turn recorded from a response with a non-empty
   evaluation carries a snapshot, and exactly the numeric entries of its
   rubric_scores are folded, each adding its value to the total and 1 to
   the count. *)
C27_EvaluationFoldsNumericEntries ==
    /\ \A c \in TurnObjects :
          LET r == create_session(AnswersObject(c))
          IN  r.error = "none" =>
                  FoldedAsSupplied(InterviewSession, r.sessions[r.session_id],
                                   r.first_turn, c)
    /\ \A sid \in DOMAIN sessions, m \in Messages, c \in TurnObjects :
          LET r == chat_session(sessions[sid], m, AnswersObject(c))
          IN  r.error = "none" => FoldedAsSupplied(sessions[sid], r.session, r.turn, c)

(* C28: the core never retries.  create_session calls the Gateway exactly
   once; chat and summarize call it exactly once when the session is
   registered and not at all when it is not; a failure of the Gateway call
   is the error of the operation, with nothing after the call having run;
   the artifact operations never call the Gateway. *)
C28_GatewayCalledOnce ==
    /\ \A o \in TurnOutcomes :
          LET r == create_session(o)
          IN  /\ r.calls = 1
              /\ GatewayError(o) # "none" =>
                    (r.error = GatewayError(o) /\ r.sessions = sessions)
    /\ \A sid \in StoreIds, m \in Messages, o \in TurnOutcomes :
          LET r == chat(sid, m, o)
          IN  IF sid \notin DOMAIN sessions THEN r.calls = 0
              ELSE /\ r.calls = 1
                   /\ GatewayError(o) # "none" =>
                         /\ r.error = GatewayError(o)
                         /\ r.turn = NoTurn
                         /\ r.sessions[sid].messages = r.sent
                         /\ r.sessions[sid].transcript = sessions[sid].transcript
    /\ \A sid \in StoreIds, o \in SummaryOutcomes :
          LET r == summarize(sid, o)
          IN  IF sid \notin DOMAIN sessions THEN r.calls = 0
              ELSE /\ r.calls = 1
                   /\ GatewayError(o) # "none" => r.error = GatewayError(o)
    /\ \A sid \in StoreIds :
          /\ list_artifacts(sid).calls = 0
          /\ \A aid \in StoreIds : get_artifact(sid, aid).calls = 0
          /\ \A up \in Uploads, d \in Notes, now \in UtcNow :
                store_file_artifact(sid, up.filename, up.content_type, up.size, d,
                                    up.written, now).calls = 0
          /\ \A u \in LinkUrls, d \in Notes, now \in UtcNow :
                store_link_artifact(sid, u, d, now).calls = 0

\* a session a failed chat has left with four history entries, holding an
\* artifact, while another id is not registered
C28_Witness ==
    /\ StoreIds \ DOMAIN sessions # {}
    /\ \E sid \in DOMAIN sessions :
          /\ Len(sessions[sid].messages) = 4
          /\ Len(sessions[sid].transcript) = 1
          /\ Len(sessions[sid].artifacts) >= 1

\* the paths the recorded artifacts reference
ReferencedPaths == {a.storage_path : a \in AllArtifacts}

(* C29: when the write of the bytes fails in store_file_artifact, whether
   it leaves no file or a truncated one, no artifact is recorded: the
   operation ends in the error of the write and every artifact mapping is
   as before; and an artifact a successful call records references a file
   that holds all of its bytes. *)
C29_FailedWriteRecordsNothing ==
    \A sid \in DOMAIN sessions, n \in UploadNames, ct \in UploadTypes, size \in UploadSizes,
       d \in Notes, w \in UploadWrites, now \in UtcNow :
        LET r == store_file_artifact(sid, n, ct, size, d, w, now)
        IN  FileValidationError(n, size) = "none" =>
                IF w = "ok"
                THEN /\ r.error = "none"
                     /\ r.artifact \in {r.sessions[sid].artifacts[i] :
                                           i \in 1..Len(r.sessions[sid].artifacts)}
                     /\ r.artifact.storage_path \in DOMAIN r.storage
                     /\ r.storage[r.artifact.storage_path] = r.artifact.size_bytes
                ELSE /\ r.error = "OSError"
                     /\ r.artifact = NoArtifact
                     /\ r.sessions = sessions
                     /\ \A p \in DOMAIN r.storage \ DOMAIN storage : p \notin ReferencedPaths

\* a failed write has left a truncated file that no artifact references, in a
\* session that also holds a stored file artifact
C29_Witness ==
    /\ DOMAIN storage \ ReferencedPaths # {}
    /\ \E a \in AllArtifacts : a.source = "file" /\ a.storage_path \in DOMAIN storage

\* every session registered before is registered after, with the state it had,
\* except session A
OthersUntouched(after, A) ==
    \A B \in DOMAIN sessions :
        /\ B \in DOMAIN after
        /\ B # A => after[B] = sessions[B]

(* C30: sessions are independent.  A chat, summarize, store_file_artifact
   or store_link_artifact addressed to session A, and the create_session of
   a new session, leave the message history, transcript, score totals and
   counts and artifact mapping of every other registered session as they
   were, and remove no registered session from the store. *)
C30_SessionsIndependent ==
    /\ \A o \in TurnOutcomes :
          LET r == create_session(o)
          IN  OthersUntouched(r.sessions, r.uuids)
    /\ \A A \in StoreIds :
          /\ \A m \in Messages, o \in TurnOutcomes :
                OthersUntouched(chat(A, m, o).sessions, A)
          /\ \A o \in SummaryOutcomes :
                OthersUntouched(summarize(A, o).sessions, A)
          /\ \A up \in Uploads, d \in Notes, now \in UtcNow :
                OthersUntouched(store_file_artifact(A, up.filename, up.content_type,
                                                    up.size, d, up.written, now).sessions, A)
          /\ \A u \in LinkUrls, d \in Notes, now \in UtcNow :
                OthersUntouched(store_link_artifact(A, u, d, now).sessions, A)

\* two registered sessions, one with a chat behind it or an artifact in it
C30_Witness ==
    \E A, B \in DOMAIN sessions :
        /\ A # B
        /\ Len(sessions[A].messages) + Len(sessions[A].artifacts) = 4
        /\ Len(sessions[B].messages) + Len(sessions[B].artifacts) = 3

(* C31: in every reachable state, between operations, the message history
   of a registered session is one system entry followed by strictly
   alternating user and assistant entries, ending with an assistant entry,
   and its length is 2 * (transcript length) + 1. *)
C31_HistoryAlternates ==
    \A sid \in DOMAIN sessions :
        LET messages == sessions[sid].messages
        IN  /\ Len(messages) = 2 * Len(sessions[sid].transcript) + 1
            /\ messages[1].role = "system"
            /\ \A i \in 2..Len(messages) :
                  messages[i].role = IF i % 2 = 0 THEN "user" ELSE "assistant"
            /\ messages[Len(messages)].role = "assistant"

\* recording the Gateway's answer c tracks each skill it scores with a JSON number,
\* in the catalog or not: one more value counted, and the skill reported with
\* total / count
ScoredSkillsTracked(before, after, c) ==
    \A S \in Skills :
        RawScore(c, S).t = "num" =>
            /\ S \in DOMAIN after.score_totals
            /\ after.score_counts[S] = Get(before.score_counts, S, 0) + 1
            /\ after.score_totals[S] = Get(before.score_totals, S, 0) + RawScore(c, S).n
            /\ S \in DOMAIN running_scores(after)
            /\ running_scores(after)[S]
                  = Divide(after.score_totals[S], after.score_counts[S])

(* C32: in every reachable state the score totals and the score counts of
   a session have the same keys, every count is a non-negative integer, a
   count of 0 goes with a total of 0, and a skill outside the rubric
   catalog that the Gateway scores with a number is tracked and reported in
   running_scores as a catalog skill is; over every step of every operation
   no count decreases. *)
C32_AggregatesConsistent ==
    /\ [](/\ \A c \in TurnObjects :
                LET r == create_session(AnswersObject(c))
                IN  r.error = "none" =>
                        ScoredSkillsTracked(InterviewSession, r.sessions[r.session_id], c)
          /\ \A sid \in DOMAIN sessions :
                LET session == sessions[sid]
                IN  /\ DOMAIN session.score_totals = DOMAIN session.score_counts
                    /\ \A S \in DOMAIN session.score_counts :
                          /\ session.score_counts[S] \in Nat
                          /\ session.score_counts[S] = 0 => session.score_totals[S] = 0
                    /\ \A m \in Messages, c \in TurnObjects :
                          LET r == chat_session(session, m, AnswersObject(c))
                          IN  r.error = "none" => ScoredSkillsTracked(session, r.session, c))
    /\ [][\A sid \in DOMAIN sessions :
            \A S \in DOMAIN sessions[sid].score_counts :
                /\ S \in DOMAIN sessions'[sid].score_counts
                /\ sessions'[sid].score_counts[S] >= sessions[sid].score_counts[S]]_vars

\* a session that reports a skill outside the catalog next to a catalog skill
\* scored twice, with another catalog skill still at count 0
C32_Witness ==
    \E sid \in DOMAIN sessions :
        /\ "vba_macros" \in DOMAIN running_scores(sessions[sid])
        /\ "vba_macros" \notin SKILL_RUBRIC
        /\ \E S \in SKILL_RUBRIC : sessions[sid].score_counts[S] = 2
        /\ \E S \in SKILL_RUBRIC : sessions[sid].score_counts[S] = 0

=============================================================================
